---- MODULE Spec2Model ----
(***************************************************************************)
(* Model of backend/video/src/subtitle.py: the subtitle track selection    *)
(* (YoutubeSubtitle.get_subtitles), the download loop                      *)
(* (YoutubeSubtitle.download_subtitles), the json3 event parser            *)
(* (SubtitleParser.process, _flat_auto_caption) and the index chunker      *)
(* (SubtitleParser._chunk_list).                                           *)
(*                                                                         *)
(* Strings that the code concatenates are sequences of one-character       *)
(* strings, so that "".join and + are sequence concatenation.  A python    *)
(* dict is the sequence of its items in insertion order.                   *)
(***************************************************************************)
EXTENDS Integers, Sequences, FiniteSets, TLC

VARIABLES
    pc,             \* position of the running operation
    youtube_meta,   \* video.youtube_meta: [subtitles, automatic_captions]
    config,         \* video.config["downloads"]: [subtitle, subtitle_source]
    languages,      \* YoutubeSubtitle.languages
    selected,       \* what get_subtitles gave back: [ret, tracks]
    subtitle_raw,   \* SubtitleParser.subtitle_raw: the parsed json3 body
    source,         \* SubtitleParser.source
    all_events,     \* the event list that process() loops over
    all_cues,       \* SubtitleParser.all_cues
    documents,      \* what _create_documents gave back
    relevant_subtitles, \* the argument of download_subtitles
    pos,            \* the place of the for loop in relevant_subtitles
    indexed,        \* download_subtitles: indexed
    subtitle_key,   \* download_subtitles: subtitle_key, <<>> while unbound
    files,          \* the caption files under MEDIA_DIR: {[path, content]}
    bulk,           \* the _bulk requests posted to the index
    raised,         \* the exception that left download_subtitles, or "none"
    history,        \* what the call did so far: requests, parses, writes, sleeps
    index,          \* the documents of ta_subtitle: {[_id, _source]}
    json_data,      \* video.json_data, with "subtitles" once it is recorded
    deletes         \* the calls of delete so far

selectVars == <<youtube_meta, languages, selected>>
parseVars == <<subtitle_raw, source, all_events, all_cues, documents>>
downloadVars == <<relevant_subtitles, pos, indexed, subtitle_key, files, bulk,
                  raised, history>>
storeVars == <<index, json_data, deletes>>
vars == <<pc, config, selectVars, parseVars, downloadVars, storeVars>>

----------------------------------------------------------------------------
(* Generic helpers                                                         *)

Range(s) == {s[i] : i \in 1..Len(s)}

SeqsUpTo(S, n) == UNION {[1..k -> S] : k \in 0..n}

\* the items of a python dict never repeat a key
NoDupKeys(s) == \A i, j \in 1..Len(s) : s[i].lang = s[j].lang => i = j

RECURSIVE SelectSeqBy(_, _)
\* SelectSeq with the test given as a set of accepted values
SelectSeqBy(s, ok) ==
    IF s = <<>> THEN <<>>
    ELSE (IF Head(s) \in ok THEN <<Head(s)>> ELSE <<>>) \o SelectSeqBy(Tail(s), ok)

IdleConfig == [subtitle |-> <<>>, subtitle_source |-> "user", subtitle_index |-> TRUE]

\* no selection is under way
SelectIdle ==
    /\ youtube_meta = [subtitles |-> <<>>, automatic_captions |-> <<>>]
    /\ languages = <<>>
    /\ selected = [ret |-> "none", tracks |-> <<>>]

\* no download is under way
DownloadIdle ==
    /\ relevant_subtitles = <<>>
    /\ pos = 1
    /\ indexed = <<>>
    /\ subtitle_key = <<>>
    /\ files = {}
    /\ bulk = <<>>
    /\ raised = "none"
    /\ history = <<>>

\* the index holds nothing, the video has no "subtitles", delete was not called
StoreIdle ==
    /\ index = {}
    /\ json_data = [youtube_id |-> "vid"]
    /\ deletes = 0

\* no parser exists
ParseIdle ==
    /\ subtitle_raw = [events |-> <<>>]
    /\ source = "user"
    /\ all_events = <<>>
    /\ all_cues = <<>>
    /\ documents = <<>>

----------------------------------------------------------------------------
(* Track selection: YoutubeSubtitle.get_subtitles                          *)

\* language keys of the metadata; live_chat is the pseudo language
MetaLangs == {"en", "de", "live_chat"}

\* the format lists a language can carry: none, no json3, json3 second
FormatLists == {<<>>, <<"vtt">>, <<"vtt", "json3">>}

MetaItems == [lang : MetaLangs, formats : FormatLists]

\* every metadata dict over MetaLangs, the languages in every insertion
\* order; live_chat is skipped before its formats are looked at, so it
\* stands first with one format list when it is there
MetaDicts ==
    {m \in SeqsUpTo(MetaItems, Cardinality(MetaLangs)) :
        /\ NoDupKeys(m)
        /\ \A i \in 1..Len(m) :
              m[i].lang = "live_chat" => (i = 1 /\ m[i].formats = <<"vtt", "json3">>)}

\* video_media_url.replace(".mp4", f".{lang}.vtt"), line 92
MediaUrl(lang) == <<"channel/vid", ".", lang, ".vtt">>

RECURSIVE GetAllSubtitles(_, _)
\* _get_all_subtitles: the candidate dict {lang: track} of one source
GetAllSubtitles(all_subtitles, src) ==
    IF all_subtitles = <<>> THEN <<>>
    ELSE LET item == Head(all_subtitles)
             rest == GetAllSubtitles(Tail(all_subtitles), src)
             subtitle_json3 == SelectSeqBy(item.formats, {"json3"})
         IN  IF item.lang = "live_chat" THEN rest
             ELSE IF item.formats = <<>> THEN rest
             ELSE IF subtitle_json3 = <<>> THEN rest
             ELSE <<[lang |-> item.lang, source |-> src,
                     ext |-> Head(subtitle_json3),
                     media_url |-> MediaUrl(item.lang)]>> \o rest

Keys(d) == [i \in 1..Len(d) |-> d[i].lang]

\* d[lang] of a dict that has the key
Lookup(d, lang) == d[CHOOSE i \in 1..Len(d) : d[i].lang = lang]

RECURSIVE MergeAutoOverwrite(_, _)
\* MergeAuto without the "lang not in available_subtitles" test
MergeAutoOverwrite(available_subtitles, auto) ==
    IF auto = <<>> THEN available_subtitles
    ELSE LET lang == Head(auto).lang
             hit  == {i \in 1..Len(available_subtitles) : available_subtitles[i].lang = lang}
         IN  MergeAutoOverwrite(
                 IF hit = {} THEN Append(available_subtitles, Head(auto))
                 ELSE [i \in 1..Len(available_subtitles) |->
                          IF i \in hit THEN Head(auto) ELSE available_subtitles[i]],
                 Tail(auto))

RECURSIVE MergeAuto(_, _)
\* lines 50-52: an auto track is added only for a language not yet present
MergeAuto(available_subtitles, auto) ==
    IF auto = <<>> THEN available_subtitles
    ELSE IF Head(auto).lang \notin Range(Keys(available_subtitles))
         THEN MergeAuto(Append(available_subtitles, Head(auto)), Tail(auto))
         ELSE MergeAuto(available_subtitles, Tail(auto))

\* lines 48-52
AvailableSubtitles(meta, subtitle_source) ==
    LET user == GetAllSubtitles(meta.subtitles, "user")
    IN  IF subtitle_source = "auto"
        THEN MergeAuto(user, GetAllSubtitles(meta.automatic_captions, "auto"))
        ELSE user

\* a policy entry after the "-" prefix test of orderedSet_from_options:
\* neg is val.startswith("-"), val the rest
Tokens == {[neg |-> FALSE, val |-> "all"], [neg |-> FALSE, val |-> "de"],
           [neg |-> FALSE, val |-> ".*"],  [neg |-> TRUE,  val |-> "en"],
           [neg |-> FALSE, val |-> "["]}

\* re.compile(val) raises re.error
BadRegex(val) == val = "["

\* re.compile(val, re.I).fullmatch(lang): a plain code matches itself
Fullmatch(val, lang) == IF val = ".*" THEN TRUE ELSE val = lang

\* FilterMatch that keeps a plain code verbatim, available or not
FilterMatchVerbatim(val, all) ==
    IF val = ".*" THEN all ELSE <<val>>

RECURSIVE FilterMatch(_, _)
\* filter(re.compile(val, re.I).fullmatch, alias_dict["all"])
FilterMatch(val, all) ==
    IF all = <<>> THEN <<>>
    ELSE (IF Fullmatch(val, Head(all)) THEN <<Head(all)>> ELSE <<>>)
         \o FilterMatch(val, Tail(all))

RECURSIVE RemoveAll(_, _)
\* while item in requested: requested.remove(item), for every item of current
RemoveAll(requested, current) ==
    IF requested = <<>> THEN <<>>
    ELSE (IF Head(requested) \in Range(current) THEN <<>> ELSE <<Head(requested)>>)
         \o RemoveAll(Tail(requested), current)

RECURSIVE OrderedSetKeepLast(_)
\* OrderedSet that keeps the last occurrence of a repeated item
OrderedSetKeepLast(s) ==
    IF s = <<>> THEN <<>>
    ELSE IF Head(s) \in Range(Tail(s)) THEN OrderedSetKeepLast(Tail(s))
    ELSE <<Head(s)>> \o OrderedSetKeepLast(Tail(s))

RECURSIVE OrderedSet(_)
\* yt_dlp orderedSet: drop repeats, keep the first occurrence
OrderedSet(s) ==
    IF s = <<>> THEN <<>>
    ELSE LET init == OrderedSet(SubSeq(s, 1, Len(s) - 1))
             last == s[Len(s)]
         IN  IF last \in Range(init) THEN init ELSE Append(init, last)

RECURSIVE ExpandAliasShort(_, _, _)
\* ExpandAlias whose loop stops one language early
ExpandAliasShort(langs, neg, requested) ==
    IF Len(langs) <= 1 THEN OrderedSet(requested)
    ELSE ExpandAliasShort(Tail(langs), neg,
                          IF neg THEN RemoveAll(requested, <<Head(langs)>>)
                          ELSE Append(requested, Head(langs)))

RECURSIVE ExpandAlias(_, _, _)
\* the nested call for an alias: its values are language codes of "all"
\* (use_regex is off there), added or, under "-", removed
ExpandAlias(langs, neg, requested) ==
    IF langs = <<>> THEN OrderedSet(requested)
    ELSE ExpandAlias(Tail(langs), neg,
                     IF neg THEN RemoveAll(requested, <<Head(langs)>>)
                     ELSE Append(requested, Head(langs)))

RECURSIVE ExpandOptions(_, _, _)
\* the loop of orderedSet_from_options(options, {"all": all}, use_regex=True);
\* [ok |-> FALSE] stands for re.error
ExpandOptions(options, all, requested) ==
    IF options = <<>> THEN [ok |-> TRUE, list |-> requested]
    ELSE LET opt == Head(options)
         IN  IF opt.val = "all"
             THEN ExpandOptions(Tail(options), all,
                                ExpandAlias(all, opt.neg, requested))
             ELSE IF BadRegex(opt.val) THEN [ok |-> FALSE, list |-> <<>>]
             ELSE LET current == FilterMatch(opt.val, all)
                  IN  ExpandOptions(Tail(options), all,
                                    IF opt.neg THEN RemoveAll(requested, current)
                                    ELSE requested \o current)

OrderedSetFromOptions(options, all) ==
    LET r == ExpandOptions(options, all, <<>>)
    IN  IF r.ok THEN [ok |-> TRUE, list |-> OrderedSet(r.list)] ELSE r

\* lines 54-66: the tracks of the expanded languages; ValueError for a wrong
\* regex; available_subtitles[lang] raises KeyError for a missing language
RelevantSubtitles(available_subtitles, policy) ==
    LET all_sub_langs == Keys(available_subtitles)
        r == OrderedSetFromOptions(policy, all_sub_langs)
    IN  IF ~r.ok THEN [ret |-> "ValueError", tracks |-> <<>>]
        ELSE IF \E i \in 1..Len(r.list) : r.list[i] \notin Range(all_sub_langs)
        THEN [ret |-> "KeyError", tracks |-> <<>>]
        ELSE [ret |-> "list",
              tracks |-> [i \in 1..Len(r.list) |->
                            Lookup(available_subtitles, r.list[i])]]

\* get_subtitles, lines 39-66
GetSubtitles ==
    /\ pc = "get_subtitles"
    \* _sub_conf_parse: config.subtitle is the setting already split at ","
    \* and stripped; languages stays False (here <<>>) for an empty setting
    /\ languages' = config.subtitle
    /\ selected' = IF languages' = <<>>
                   THEN [ret |-> "False", tracks |-> <<>>]
                   ELSE RelevantSubtitles(
                            AvailableSubtitles(youtube_meta, config.subtitle_source),
                            languages')
    /\ pc' = "selected"
    /\ UNCHANGED <<youtube_meta, config, storeVars, parseVars, downloadVars>>

MaxPolicy == 2

InitSelect ==
    /\ pc = "get_subtitles"
    /\ youtube_meta \in [subtitles : MetaDicts, automatic_captions : MetaDicts]
    /\ config \in [subtitle : SeqsUpTo(Tokens, MaxPolicy),
                   subtitle_source : {"user", "auto"},
                   subtitle_index : {TRUE}]
    /\ languages = <<>>
    /\ selected = [ret |-> "none", tracks |-> <<>>]
    /\ ParseIdle
    /\ DownloadIdle
    /\ StoreIdle

NextSelect == GetSubtitles

SpecSelect == InitSelect /\ [][NextSelect]_vars

----------------------------------------------------------------------------
(* The json3 parser: SubtitleParser                                        *)

\* cues per index document, line 384
ChunkSize == 5

HasKey(d, k) == k \in DOMAIN d

Whitespace == {" ", "\n"}

\* not text.strip()
IsBlank(text) == \A i \in 1..Len(text) : text[i] \in Whitespace

RECURSIVE JoinUtf8(_)
\* "".join([i.get("utf8") for i in segs])
JoinUtf8(segs) ==
    IF segs = <<>> THEN <<>> ELSE Head(segs).utf8 \o JoinUtf8(Tail(segs))

Digits == <<"0", "1", "2", "3", "4", "5", "6", "7", "8", "9">>

RECURSIVE Str(_)
\* str(n) of a non-negative integer
Str(n) == IF n < 10 THEN <<Digits[n + 1]>> ELSE Str(n \div 10) \o <<Digits[(n % 10) + 1]>>

\* Zfill that pads nothing
ZfillNone(s, width) == s

RECURSIVE Zfill(_, _)
\* s.zfill(width)
Zfill(s, width) == IF Len(s) >= width THEN s ELSE Zfill(<<"0">> \o s, width)

\* _ms_conv, lines 292-302
MsConv(ms) ==
    LET hours   == Zfill(Str((ms \div (1000 * 60 * 60)) % 24), 2)
        minutes == Zfill(Str((ms \div (1000 * 60)) % 60), 2)
        secs    == Zfill(Str((ms \div 1000) % 60), 2)
        millis  == Zfill(Str(ms % 1000), 3)
    IN  hours \o <<":">> \o minutes \o <<":">> \o secs \o <<".">> \o millis

\* FlatStep that compares with the start of the last event, not its end
FlatStepStartOnly(flatten, event) ==
    IF ~HasKey(event, "segs") THEN flatten
    ELSE LET text == JoinUtf8(event.segs)
         IN  IF IsBlank(text) THEN flatten
             ELSE IF flatten # <<>>
             THEN LET last == flatten[Len(flatten)]
                  IN  IF ~HasKey(last, "dDurationMs") \/ ~HasKey(last, "segs")
                      THEN flatten
                      ELSE IF event.tStartMs < last.tStartMs
                      THEN [flatten EXCEPT ![Len(flatten)].segs[1].utf8 =
                                last.segs[1].utf8 \o <<"\n">> \o text]
                      ELSE Append(flatten, [event EXCEPT !.segs = <<[utf8 |-> text]>>])
             ELSE Append(flatten, [event EXCEPT !.segs = <<[utf8 |-> text]>>])

\* one turn of the loop of _flat_auto_caption, lines 265-288
FlatStep(flatten, event) ==
    IF ~HasKey(event, "segs") THEN flatten
    ELSE LET text == JoinUtf8(event.segs)
         IN  IF IsBlank(text) THEN flatten
             ELSE IF flatten # <<>>
             THEN LET last == flatten[Len(flatten)]
                  IN  IF ~HasKey(last, "dDurationMs") \/ ~HasKey(last, "segs")
                      THEN flatten
                      ELSE IF event.tStartMs < last.tStartMs + last.dDurationMs
                      THEN [flatten EXCEPT ![Len(flatten)].segs[1].utf8 =
                                last.segs[1].utf8 \o <<"\n">> \o text]
                      ELSE Append(flatten, [event EXCEPT !.segs = <<[utf8 |-> text]>>])
             ELSE Append(flatten, [event EXCEPT !.segs = <<[utf8 |-> text]>>])

RECURSIVE FlatFrom(_, _)
FlatFrom(flatten, events) ==
    IF events = <<>> THEN flatten
    ELSE FlatFrom(FlatStep(flatten, Head(events)), Tail(events))

\* _flat_auto_caption, lines 260-290
FlatAutoCaption(events) == FlatFrom(<<>>, events)

\* the cue of lines 250-255; idx is the position in the looped list
Cue(event, idx) ==
    [start |-> MsConv(event.tStartMs),
     end   |-> MsConv(event.tStartMs + event.dDurationMs),
     text  |-> JoinUtf8(event.segs),
     idx   |-> idx + 1]

RECURSIVE CuesFromLax(_, _)
\* CuesFrom that skips an event only when both fields are missing and reads
\* a missing field as empty
CuesFromLax(events, idx) ==
    IF idx >= Len(events) THEN <<>>
    ELSE LET event == events[idx + 1]
             dur   == IF HasKey(event, "dDurationMs") THEN event.dDurationMs ELSE 0
             segs  == IF HasKey(event, "segs") THEN event.segs ELSE <<>>
         IN  (IF ~HasKey(event, "dDurationMs") /\ ~HasKey(event, "segs")
              THEN <<>>
              ELSE <<[start |-> MsConv(event.tStartMs),
                      end   |-> MsConv(event.tStartMs + dur),
                      text  |-> JoinUtf8(segs),
                      idx   |-> idx + 1]>>) \o CuesFromLax(events, idx + 1)

RECURSIVE CuesFrom(_, _)
\* the loop of process(), lines 244-256, from position idx (0-based) on
CuesFrom(events, idx) ==
    IF idx >= Len(events) THEN <<>>
    ELSE LET event == events[idx + 1]
         IN  (IF ~HasKey(event, "dDurationMs") \/ ~HasKey(event, "segs")
              THEN <<>>
              ELSE <<Cue(event, idx)>>) \o CuesFrom(events, idx + 1)

\* subtitle_raw.get("events"): None and [] are both skipped at line 235
GetEvents(raw) == IF HasKey(raw, "events") THEN raw.events ELSE <<>>

\* the list process() loops over, lines 233-242
LoopedEvents(raw, src) ==
    IF GetEvents(raw) = <<>> THEN <<>>
    ELSE IF src = "auto" THEN FlatAutoCaption(GetEvents(raw))
    ELSE GetEvents(raw)

\* SubtitleParser.process, lines 229-258
Process ==
    /\ pc = "process"
    /\ all_events' = LoopedEvents(subtitle_raw, source)
    /\ all_cues' = CuesFrom(all_events', 0)
    /\ pc' = "processed"
    /\ UNCHANGED <<config, storeVars, selectVars, subtitle_raw, source, documents, downloadVars>>

\* one turn of the loop of _chunk_list, lines 370-387; st holds the locals
\* chunk_list, chunk ({} is the empty function) and idx
ChunkStep(st, cue, youtube_id, lang) ==
    LET joined ==
            IF DOMAIN st.chunk # {}
            THEN [st EXCEPT !.chunk.subtitle_line = @ \o <<" ">> \o cue.text \o <<"\n">>]
            ELSE [st EXCEPT !.idx = Len(st.chunk_list) + 1,
                            !.chunk = [subtitle_index |-> Len(st.chunk_list) + 1,
                                       subtitle_line  |-> cue.text,
                                       subtitle_start |-> cue.start]]
        named ==
            [joined EXCEPT !.chunk =
                [k \in DOMAIN @ \cup {"subtitle_fragment_id"} |->
                    IF k = "subtitle_fragment_id"
                    THEN <<youtube_id, lang, joined.idx>> ELSE @[k]]]
    IN  IF cue.idx % ChunkSize = 0
        THEN [named EXCEPT
                 !.chunk_list = Append(@,
                     [k \in DOMAIN named.chunk \cup {"subtitle_end"} |->
                         IF k = "subtitle_end" THEN cue.end ELSE named.chunk[k]]),
                 !.chunk = <<>>]
        ELSE named

RECURSIVE ChunkFromFlush(_, _, _, _)
\* ChunkFrom that also gives back the chunk left open at the end
ChunkFromFlush(st, cues, youtube_id, lang) ==
    IF cues = <<>>
    THEN (IF DOMAIN st.chunk # {} THEN Append(st.chunk_list, st.chunk) ELSE st.chunk_list)
    ELSE ChunkFromFlush(ChunkStep(st, Head(cues), youtube_id, lang), Tail(cues),
                        youtube_id, lang)

RECURSIVE ChunkFrom(_, _, _, _)
ChunkFrom(st, cues, youtube_id, lang) ==
    IF cues = <<>> THEN st.chunk_list
    ELSE ChunkFrom(ChunkStep(st, Head(cues), youtube_id, lang), Tail(cues), youtube_id, lang)

\* _chunk_list, lines 364-390
ChunkList(cues, youtube_id, lang) ==
    ChunkFrom([chunk_list |-> <<>>, chunk |-> <<>>, idx |-> 0], cues, youtube_id, lang)

\* the video and the language of the parser at work
YoutubeId == "vid"
ParserLang == "en"

\* _create_documents, lines 340-362: the chunks with the video's data added
Documents(cues, youtube_id, lang, src) ==
    LET chunks == ChunkList(cues, youtube_id, lang)
    IN  [i \in 1..Len(chunks) |->
            [k \in DOMAIN chunks[i] \cup {"youtube_id", "subtitle_lang", "subtitle_source"} |->
                CASE k = "youtube_id" -> youtube_id
                  [] k = "subtitle_lang" -> lang
                  [] k = "subtitle_source" -> src
                  [] OTHER -> chunks[i][k]]]

CreateDocuments ==
    /\ pc = "processed"
    /\ documents' = Documents(all_cues, YoutubeId, ParserLang, source)
    /\ pc' = "documents"
    /\ UNCHANGED <<config, storeVars, selectVars, subtitle_raw, source, all_events, all_cues,
                   downloadVars>>

\* event lists of any shape: up to MaxEvents events
MaxEvents == 3

\* cue lists long enough to close chunks: up to MaxCues events
MaxCues == 12

Starts == {0, 500, 1000}

SegLists == {<<>>, <<[utf8 |-> <<" ">>]>>, <<[utf8 |-> <<"a">>]>>,
             <<[utf8 |-> <<"b">>]>>, <<[utf8 |-> <<"a">>], [utf8 |-> <<"b">>]>>}

\* json3 events: tStartMs always, dDurationMs and segs each optional (an
\* event without segs at one start, one without duration with one text)
Events ==
    [tStartMs : {0}] \cup [tStartMs : {0}, dDurationMs : {1000}]
    \cup [tStartMs : Starts, segs : {<<[utf8 |-> <<"a">>]>>}]
    \cup [tStartMs : Starts, dDurationMs : {1000}, segs : SegLists]

Letters == <<"a", "b", "c", "d", "e", "f", "g", "h", "i", "j", "k", "l", "m",
             "n", "o", "p", "q", "r", "s", "t", "u", "v", "w", "x", "y", "z">>

\* the i-th event of a track of consecutive one-second captions, with its
\* duration or (an event "without content") without it
TimedEvent(i, timed) ==
    IF timed
    THEN [tStartMs |-> 1000 * (i - 1), dDurationMs |-> 1000,
          segs |-> <<[utf8 |-> <<Letters[((i - 1) % 26) + 1]>>]>>]
    ELSE [tStartMs |-> 1000 * (i - 1)]

LongEventLists ==
    UNION {{[i \in 1..n |-> TimedEvent(i, timed[i])] : timed \in [1..n -> BOOLEAN]} :
              n \in 0..MaxCues}

\* the milliseconds of a day: where the hours of _ms_conv wrap, line 297
DayMs == 24 * 60 * 60 * 1000

\* one event around the end of the first day of a track
LateEventLists ==
    {<<[tStartMs |-> t, dDurationMs |-> 1000, segs |-> <<[utf8 |-> <<"a">>]>>]>> :
        t \in {DayMs - 1000, DayMs - 500, DayMs, DayMs + 1000 * 60 * 60}}

\* SubtitleParser.__init__ on a body without "events", with a short list of
\* any events, with a long list of one-second events, or with an event a
\* day into the track
InitParse ==
    /\ pc = "process"
    /\ \/ /\ subtitle_raw \in {[wireMagic |-> "pb3"]}
                                \cup {[events |-> es] : es \in SeqsUpTo(Events, MaxEvents)}
          /\ source \in {"user", "auto"}
       \/ /\ subtitle_raw \in {[events |-> es] : es \in LongEventLists}
          /\ source = "user"
       \/ /\ subtitle_raw \in {[events |-> es] : es \in LateEventLists}
          /\ source \in {"user", "auto"}
    /\ all_events = <<>>
    /\ all_cues = <<>>
    /\ documents = <<>>
    /\ config = IdleConfig
    /\ SelectIdle
    /\ DownloadIdle
    /\ StoreIdle

NextParse == Process \/ CreateDocuments

SpecParse == InitParse /\ [][NextParse]_vars

----------------------------------------------------------------------------
(* The download loop: YoutubeSubtitle.download_subtitles                   *)

RECURSIVE CueBlocks(_)
\* the loop of get_subtitle_str, lines 309-312
CueBlocks(cues) ==
    IF cues = <<>> THEN <<>>
    ELSE <<"\n", "\n">> \o Str(Head(cues).idx) \o <<"\n">>
         \o Head(cues).start \o <<" --> ">> \o Head(cues).end \o <<"\n">>
         \o Head(cues).text \o CueBlocks(Tail(cues))

\* get_subtitle_str, lines 304-317
GetSubtitleStr(cues, lang) ==
    <<"WEBVTT", "\n", "Kind: captions", "\n", "Language: ", lang>> \o CueBlocks(cues)

RECURSIVE BulkLines(_)
\* the loop of create_bulk_import, lines 328-332: an action and a document line
BulkLines(docs) ==
    IF docs = <<>> THEN <<>>
    ELSE <<[index |-> [_index |-> "ta_subtitle", _id |-> Head(docs).subtitle_fragment_id]],
           [document |-> Head(docs)]>> \o BulkLines(Tail(docs))

\* create_bulk_import, lines 319-338: the lines joined into query_str
CreateBulkImport(docs) == BulkLines(docs) \o <<[end |-> "\n"]>>

\* what ta_subtitle holds of documents once their bulk request is through
Stored(docs) == {[_id |-> docs[i].subtitle_fragment_id, _source |-> docs[i]] : i \in 1..Len(docs)}

\* the _bulk index request, lines 180-184: a document replaces the one of its _id
Upsert(idx, docs) ==
    {d \in idx : \A n \in Stored(docs) : n._id # d._id} \cup Stored(docs)

\* response.text: empty, something json.loads rejects, or a json3 document
\* with no events, with 1, 2 or 5 one-second events, with one event
\* without duration, or with 5 events of which the first has no duration
ResponseTexts ==
    {[kind |-> "empty"], [kind |-> "invalid"]}
    \cup {[kind |-> "json", raw |-> [wireMagic |-> "pb3"]],
          [kind |-> "json", raw |-> [events |-> <<TimedEvent(1, FALSE)>>]]}
    \cup {[kind |-> "json", raw |-> [events |-> [i \in 1..n |-> TimedEvent(i, TRUE)]]] :
             n \in {1, 2, ChunkSize}}
    \cup {[kind |-> "json",
           raw |-> [events |-> [i \in 1..ChunkSize |-> TimedEvent(i, i # 1)]]]}

JsonTexts == {t \in ResponseTexts : t.kind = "json"}

\* parser.process() on a body: the cues
CuesOf(raw, src) == CuesFrom(LoopedEvents(raw, src), 0)

InLoop == pc = "download" /\ pos <= Len(relevant_subtitles)

\* one entry of history, made at the track in hand
Did(op, result, n) == [op |-> op, pos |-> pos, result |-> result, n |-> n]

\* requests.get raises (no connection, timeout after 30 s): nothing in
\* download_subtitles catches it, line 130
RequestRaises ==
    /\ InLoop
    /\ history' = Append(history, Did("get", "error", 0))
    /\ raised' = "RequestException"
    /\ pc' = "raised"
    /\ UNCHANGED <<config, storeVars, selectVars, parseVars, relevant_subtitles, pos, indexed,
                   subtitle_key, files, bulk>>

\* not response.ok, lines 133-138
DownloadFailed ==
    /\ InLoop
    /\ subtitle_key' = <<YoutubeId, relevant_subtitles[pos].lang>>
    /\ history' = history \o <<Did("get", "not_ok", 0), Did("sleep", "", 0)>>
    /\ pos' = pos + 1
    /\ UNCHANGED <<pc, config, storeVars, selectVars, parseVars, relevant_subtitles, indexed,
                   files, bulk, raised>>

\* not response.text, lines 140-143: the print reads subtitle_key, which is
\* bound only once line 134 has run in this call
EmptyBody ==
    /\ InLoop
    /\ IF subtitle_key = <<>>
       THEN /\ history' = Append(history, Did("get", "ok_empty", 0))
            /\ raised' = "UnboundLocalError"
            /\ pc' = "raised"
            /\ pos' = pos
       ELSE /\ history' = history \o <<Did("get", "ok_empty", 0), Did("sleep", "", 0)>>
            /\ pos' = pos + 1
            /\ UNCHANGED <<pc, raised>>
    /\ UNCHANGED <<config, storeVars, selectVars, parseVars, relevant_subtitles, indexed,
                   subtitle_key, files, bulk>>

\* json.loads(subtitle_str) raises in SubtitleParser.__init__, lines 146, 224
InvalidBody ==
    /\ InLoop
    /\ history' = Append(history, Did("get", "ok", 0))
    /\ raised' = "JSONDecodeError"
    /\ pc' = "raised"
    /\ UNCHANGED <<config, storeVars, selectVars, parseVars, relevant_subtitles, pos, indexed,
                   subtitle_key, files, bulk>>

\* the parser of the track in hand after process(), lines 146-147
Parsed(text) ==
    /\ subtitle_raw' = text.raw
    /\ source' = relevant_subtitles[pos].source
    /\ all_events' = LoopedEvents(subtitle_raw', source')
    /\ all_cues' = CuesFrom(all_events', 0)

\* NoCues that records the track it skips
NoCuesIndexed ==
    /\ InLoop
    /\ \E text \in JsonTexts :
          /\ Parsed(text)
          /\ all_cues' = <<>>
    /\ history' = history \o <<Did("get", "ok", 0), Did("parse", "", 0),
                               Did("sleep", "", 0)>>
    /\ indexed' = Append(indexed, relevant_subtitles[pos])
    /\ pos' = pos + 1
    /\ UNCHANGED <<pc, config, storeVars, selectVars, documents, relevant_subtitles,
                   subtitle_key, files, bulk, raised>>

\* not parser.all_cues, lines 148-151
NoCues ==
    /\ InLoop
    /\ \E text \in JsonTexts :
          /\ Parsed(text)
          /\ all_cues' = <<>>
    /\ history' = history \o <<Did("get", "ok", 0), Did("parse", "", 0),
                               Did("sleep", "", 0)>>
    /\ pos' = pos + 1
    /\ UNCHANGED <<pc, config, storeVars, selectVars, documents, relevant_subtitles, indexed,
                   subtitle_key, files, bulk, raised>>

\* lines 154-161: the file is written, the documents are posted when
\* subtitle_index is set, the track is recorded
Persist ==
    /\ InLoop
    /\ \E text \in JsonTexts :
          /\ Parsed(text)
          /\ all_cues' # <<>>
    /\ LET subtitle == relevant_subtitles[pos]
           dest_path == <<"MEDIA_DIR", subtitle.media_url>>
           written == [path |-> dest_path,
                       content |-> GetSubtitleStr(all_cues', subtitle.lang)]
       IN  /\ files' = {f \in files : f.path # dest_path} \cup {written}
           /\ IF config.subtitle_index
              THEN /\ documents' = Documents(all_cues', YoutubeId, subtitle.lang, source')
                   /\ bulk' = Append(bulk, CreateBulkImport(documents'))
                   /\ index' = Upsert(index, documents')
                   /\ history' = history \o
                         <<Did("get", "ok", 0), Did("parse", "", Len(all_cues')),
                           Did("write", "ok", 0), Did("bulk", "", Len(documents')),
                           Did("sleep", "", 0)>>
              ELSE /\ UNCHANGED <<documents, bulk, index>>
                   /\ history' = history \o
                         <<Did("get", "ok", 0), Did("parse", "", Len(all_cues')),
                           Did("write", "ok", 0), Did("sleep", "", 0)>>
           /\ indexed' = Append(indexed, subtitle)
    /\ pos' = pos + 1
    /\ UNCHANGED <<pc, config, json_data, deletes, selectVars, relevant_subtitles,
                   subtitle_key, raised>>

\* WriteFails that logs the failure and goes on to the next track
WriteFailsSkipped ==
    /\ InLoop
    /\ \E text \in JsonTexts :
          /\ Parsed(text)
          /\ all_cues' # <<>>
    /\ history' = history \o <<Did("get", "ok", 0), Did("parse", "", Len(all_cues')),
                               Did("write", "error", 0), Did("sleep", "", 0)>>
    /\ pos' = pos + 1
    /\ UNCHANGED <<pc, config, storeVars, selectVars, documents, relevant_subtitles, indexed,
                   subtitle_key, files, bulk, raised>>

\* _write_subtitle_file raises (makedirs, open, write or chown), lines 165-177;
\* the file may or may not be there afterwards
WriteFails ==
    /\ InLoop
    /\ \E text \in JsonTexts :
          /\ Parsed(text)
          /\ all_cues' # <<>>
    /\ LET subtitle == relevant_subtitles[pos]
           dest_path == <<"MEDIA_DIR", subtitle.media_url>>
           written == [path |-> dest_path,
                       content |-> GetSubtitleStr(all_cues', subtitle.lang)]
       IN  \E there \in BOOLEAN :
              files' = IF there THEN {f \in files : f.path # dest_path} \cup {written}
                       ELSE files
    /\ history' = history \o <<Did("get", "ok", 0), Did("parse", "", Len(all_cues')),
                               Did("write", "error", 0)>>
    /\ raised' = "OSError"
    /\ pc' = "raised"
    /\ UNCHANGED <<config, storeVars, selectVars, documents, relevant_subtitles, pos, indexed,
                   subtitle_key, bulk>>

\* return indexed, line 163
Return ==
    /\ pc = "download"
    /\ pos > Len(relevant_subtitles)
    /\ pc' = "returned"
    /\ UNCHANGED <<config, storeVars, selectVars, parseVars, downloadVars>>

\* the caller keeps what download_subtitles returned as the video's
\* "subtitles", the recorded media paths that delete() reads at line 202
Record ==
    /\ pc = "returned"
    /\ json_data' = [youtube_id |-> YoutubeId, subtitles |-> indexed]
    /\ pc' = "recorded"
    /\ UNCHANGED <<config, index, deletes, selectVars, parseVars, downloadVars>>

\* the files that delete() removes, lines 192-203: those of the argument, or
\* the recorded ones; "return" when there is neither
FilesToDelete(subtitles) ==
    IF subtitles # <<>>
    THEN [ret |-> "files", files |-> [i \in 1..Len(subtitles) |-> subtitles[i].media_url]]
    ELSE IF ~HasKey(json_data, "subtitles") \/ json_data.subtitles = <<>>
         THEN [ret |-> "return", files |-> <<>>]
         ELSE [ret |-> "files",
               files |-> [i \in 1..Len(json_data.subtitles) |->
                             json_data.subtitles[i].media_url]]

\* os.remove of each file, a missing one passed over, lines 205-211
Removed(fs, names) ==
    {f \in fs : \A i \in 1..Len(names) : f.path # <<"MEDIA_DIR", names[i]>>}

\* delete by query on the term youtube_id, lines 213-215
DeleteByQuery(idx, youtube_id) == {d \in idx : d._source.youtube_id # youtube_id}

\* calls of delete
MaxDeletes == 2

\* delete(subtitles), lines 186-216, called once the download is over: without
\* argument, with the returned tracks or with the selected tracks
Delete ==
    /\ pc \in {"recorded", "raised", "deleted"}
    /\ deletes < MaxDeletes
    /\ \E subtitles \in {<<>>, indexed, relevant_subtitles} :
          LET todo == FilesToDelete(subtitles)
          IN  IF todo.ret = "return"
              THEN UNCHANGED <<files, index>>
              ELSE /\ files' = Removed(files, todo.files)
                   /\ index' = DeleteByQuery(index, YoutubeId)
    /\ deletes' = deletes + 1
    /\ pc' = "deleted"
    /\ UNCHANGED <<config, json_data, selectVars, parseVars, relevant_subtitles, pos,
                   indexed, subtitle_key, bulk, raised, history>>

\* tracks per call
MaxTracks == 2

TrackLangs == {"en", "de", "fr"}

\* what get_subtitles hands over: tracks of different languages
TrackLists ==
    {t \in SeqsUpTo([lang : TrackLangs, source : {"user", "auto"}], MaxTracks) : NoDupKeys(t)}

WithUrls(tracks) ==
    [i \in 1..Len(tracks) |->
        [lang |-> tracks[i].lang, source |-> tracks[i].source, ext |-> "json3",
         media_url |-> MediaUrl(tracks[i].lang)]]

\* the documents of another video
OtherDocuments ==
    Documents(CuesOf([events |-> [i \in 1..ChunkSize |-> TimedEvent(i, TRUE)]], "user"),
              "other", "en", "user")

InitDownload ==
    /\ pc = "download"
    /\ config \in [subtitle : {<<[neg |-> FALSE, val |-> "all"]>>},
                   subtitle_source : {"auto"},
                   subtitle_index : BOOLEAN]
    /\ relevant_subtitles \in {WithUrls(t) : t \in TrackLists}
    /\ pos = 1
    /\ indexed = <<>>
    /\ subtitle_key = <<>>
    /\ files = {}
    /\ bulk = <<>>
    /\ raised = "none"
    /\ history = <<>>
    /\ index = Stored(OtherDocuments)
    /\ json_data = [youtube_id |-> YoutubeId]
    /\ deletes = 0
    /\ SelectIdle
    /\ ParseIdle

NextDownload ==
    \/ RequestRaises
    \/ DownloadFailed
    \/ EmptyBody
    \/ InvalidBody
    \/ NoCues
    \/ Persist
    \/ WriteFails
    \/ Return
    \/ Record
    \/ Delete

SpecDownload == InitDownload /\ [][NextDownload]_vars

----------------------------------------------------------------------------
(* The three parts together                                                *)

Init == InitSelect \/ InitParse \/ InitDownload

Next == NextSelect \/ NextParse \/ NextDownload

Spec == Init /\ [][Next]_vars

----------------------------------------------------------------------------
(* Claims about the track selection (checked under SpecSelect)             *)

Returned == pc = "selected" /\ selected.ret = "list"

SelectedLangs == Keys(selected.tracks)

UserCandidates == GetAllSubtitles(youtube_meta.subtitles, "user")

AutoCandidates == GetAllSubtitles(youtube_meta.automatic_captions, "auto")

Available == AvailableSubtitles(youtube_meta, config.subtitle_source)

NoRepeat(s) == \A i, j \in 1..Len(s) : s[i] = s[j] => i = j

AllToken == [neg |-> FALSE, val |-> "all"]

PolicyValid == \A i \in 1..Len(languages) : ~BadRegex(languages[i].val)

PolicyNoDiscard == \A i \in 1..Len(languages) : ~languages[i].neg

\* C4: a selected track of a language that has a user candidate is the user
\* track; an auto track is selected only with subtitle_source "auto" and for
\* a language without user candidate; without "auto" no auto track is selected.
C4_UserPrecedence ==
    Returned =>
        \A i \in 1..Len(selected.tracks) :
            LET t == selected.tracks[i]
            IN  /\ t.lang \in Range(Keys(UserCandidates)) =>
                      /\ t.source = "user"
                      /\ t \in Range(UserCandidates)
                /\ t.source = "auto" =>
                      /\ config.subtitle_source = "auto"
                      /\ t.lang \notin Range(Keys(UserCandidates))
                      /\ t \in Range(AutoCandidates)

\* a language with a user and an auto candidate was selected under "auto",
\* and so was an auto track of another language
C4_Witness ==
    /\ Returned
    /\ config.subtitle_source = "auto"
    /\ \E i \in 1..Len(selected.tracks) :
          /\ selected.tracks[i].source = "user"
          /\ selected.tracks[i].lang \in Range(Keys(AutoCandidates))
    /\ \E i \in 1..Len(selected.tracks) : selected.tracks[i].source = "auto"

\* C5 as stated: with "all" anywhere in the policy, beside any other entries,
\* the returned languages are the available languages in their enumeration
\* order (taken here on the policies without "-" entry, where nothing is
\* removed from the request).
C5_AllAnywhere ==
    (Returned /\ AllToken \in Range(languages) /\ PolicyNoDiscard) =>
        SelectedLangs = Keys(Available)

\* C5 amended: with "all" in a policy of valid entries without "-" entry,
\* get_subtitles returns every available language exactly once; they come in
\* the enumeration order of the available set when "all" is the first entry.
C5_AllFirst ==
    (pc = "selected" /\ AllToken \in Range(languages)
        /\ PolicyValid /\ PolicyNoDiscard) =>
        /\ selected.ret = "list"
        /\ Range(SelectedLangs) = Range(Keys(Available))
        /\ NoRepeat(SelectedLangs)
        /\ languages[1] = AllToken => SelectedLangs = Keys(Available)

\* "all" first, then an entry that matches a later language again
C5_Witness ==
    /\ Returned
    /\ Len(languages) = 2
    /\ languages[1] = AllToken
    /\ languages[2] = [neg |-> FALSE, val |-> "de"]
    /\ SelectedLangs = <<"en", "de">>

\* the list of languages before the final orderedSet()
Expansion == ExpandOptions(languages, Keys(Available), <<>>).list

FirstAt(s, x) == CHOOSE i \in 1..Len(s) : s[i] = x /\ \A j \in 1..(i - 1) : s[j] # x

\* C6: the returned list has no language twice, holds exactly the languages
\* of the expansion, and orders them by their first occurrence in it.
C6_NoDuplicates ==
    Returned =>
        /\ NoRepeat(SelectedLangs)
        /\ Range(SelectedLangs) = Range(Expansion)
        /\ \A i, j \in 1..Len(SelectedLangs) :
              i < j => FirstAt(Expansion, SelectedLangs[i]) < FirstAt(Expansion, SelectedLangs[j])

\* a literal and a regex expanded to the same language, which came back once
C6_Witness ==
    /\ Returned
    /\ ~NoRepeat(Expansion)
    /\ languages = <<[neg |-> FALSE, val |-> "de"], [neg |-> FALSE, val |-> ".*"]>>
    /\ SelectedLangs = <<"de", "en">>

UnavailableLiteral ==
    \E i \in 1..Len(languages) :
        /\ ~languages[i].neg
        /\ languages[i].val = "de"
        /\ "de" \notin Range(Keys(Available))

\* the policy without its plain "de" entries
RECURSIVE WithoutLiteral(_)
WithoutLiteral(policy) ==
    IF policy = <<>> THEN <<>>
    ELSE (IF Head(policy) = [neg |-> FALSE, val |-> "de"] THEN <<>> ELSE <<Head(policy)>>)
         \o WithoutLiteral(Tail(policy))

\* C7: a literal code that is not available raises nothing and adds nothing:
\* the call returns what the policy without that entry selects, and every
\* returned language is an available one.
C7_UnavailableLiteral ==
    (pc = "selected" /\ UnavailableLiteral /\ PolicyValid) =>
        /\ selected.ret = "list"
        /\ \A i \in 1..Len(SelectedLangs) : SelectedLangs[i] \in Range(Keys(Available))
        /\ selected.tracks = RelevantSubtitles(Available, WithoutLiteral(languages)).tracks

\* "de" is requested and missing, "en" is requested too and returned
C7_Witness ==
    /\ pc = "selected"
    /\ UnavailableLiteral
    /\ selected.ret = "list"
    /\ SelectedLangs = <<"en">>

----------------------------------------------------------------------------
(* Claims about the parser and the chunker (checked under SpecParse)       *)

Processed == pc \in {"processed", "documents"}

RawEvents == GetEvents(subtitle_raw)

\* the retained events of the merge pass before the last input event came
FlatBefore == FlatAutoCaption(SubSeq(RawEvents, 1, Len(RawEvents) - 1))

\* the last input event of an auto track has text and starts before the end
\* of the last retained event
OverlapsLast ==
    /\ source = "auto"
    /\ RawEvents # <<>>
    /\ HasKey(RawEvents[Len(RawEvents)], "segs")
    /\ ~IsBlank(JoinUtf8(RawEvents[Len(RawEvents)].segs))
    /\ FlatBefore # <<>>
    /\ HasKey(FlatBefore[Len(FlatBefore)], "dDurationMs")
    /\ RawEvents[Len(RawEvents)].tStartMs <
           FlatBefore[Len(FlatBefore)].tStartMs + FlatBefore[Len(FlatBefore)].dDurationMs

TwoOverlapping ==
    <<[tStartMs |-> 0, dDurationMs |-> 1000, segs |-> <<[utf8 |-> <<"a">>]>>],
      [tStartMs |-> 500, dDurationMs |-> 1000, segs |-> <<[utf8 |-> <<"b">>]>>]>>

\* C8: an event with text that starts before the end of the last retained
\* event adds no event: the retained events stay as many, all but the last
\* unchanged, the last keeps start and duration and gets a newline and the
\* event's text appended; events (0, 1000, a) and (500, 1000, b) give one
\* event (0, 1000) with text a, newline, b.
C8_MergeOverlap ==
    (Processed /\ OverlapsLast) =>
        LET n    == Len(FlatBefore)
            last == FlatBefore[n]
            text == JoinUtf8(RawEvents[Len(RawEvents)].segs)
        IN  /\ Len(all_events) = n
            /\ \A i \in 1..(n - 1) : all_events[i] = FlatBefore[i]
            /\ all_events[n].tStartMs = last.tStartMs
            /\ all_events[n].dDurationMs = last.dDurationMs
            /\ JoinUtf8(all_events[n].segs) = JoinUtf8(last.segs) \o <<"\n">> \o text
            /\ RawEvents = TwoOverlapping =>
                  all_events = <<[tStartMs |-> 0, dDurationMs |-> 1000,
                                  segs |-> <<[utf8 |-> <<"a", "\n", "b">>]>>]>>

\* the two overlapping events were merged into one
C8_Witness ==
    /\ Processed
    /\ OverlapsLast
    /\ RawEvents = TwoOverlapping
    /\ Len(all_events) = 1

CueAt(i) == \E c \in 1..Len(all_cues) : all_cues[c].idx = i

\* C9 as stated: an event of the looped list without duration, without segs
\* or with an empty segs list gives no cue; no events give no cues.
C9_DropsEmptySegs ==
    Processed =>
        /\ \A i \in 1..Len(all_events) :
              (\/ ~HasKey(all_events[i], "dDurationMs")
               \/ ~HasKey(all_events[i], "segs")
               \/ all_events[i].segs = <<>>) => ~CueAt(i)
        /\ RawEvents = <<>> => all_cues = <<>>

\* C9 amended: an event of the looped list gives a cue exactly when it has
\* the duration and the segs field (an empty segs list gives a cue with
\* empty text); no events give no cues.
C9_DropsMissing ==
    Processed =>
        /\ \A i \in 1..Len(all_events) :
              CueAt(i) <=> (HasKey(all_events[i], "dDurationMs") /\ HasKey(all_events[i], "segs"))
        /\ \A c \in 1..Len(all_cues) : all_cues[c].idx \in 1..Len(all_events)
        /\ \A c, d \in 1..Len(all_cues) : all_cues[c].idx = all_cues[d].idx => c = d
        /\ RawEvents = <<>> => all_cues = <<>>

\* a user track with an event without duration, one without segs and one
\* with both, which alone became a cue
C9_Witness ==
    /\ Processed
    /\ source = "user"
    /\ Len(all_events) = 3
    /\ \E i \in 1..3 : ~HasKey(all_events[i], "dDurationMs") /\ HasKey(all_events[i], "segs")
    /\ \E i \in 1..3 : ~HasKey(all_events[i], "segs")
    /\ Len(all_cues) = 1

Contiguous == \A i \in 1..Len(all_cues) : all_cues[i].idx = i

\* the text of the document made of the five cues from position i on
LineOf(i) ==
    all_cues[i].text \o <<" ">> \o all_cues[i + 1].text \o <<"\n", " ">>
    \o all_cues[i + 2].text \o <<"\n", " ">> \o all_cues[i + 3].text
    \o <<"\n", " ">> \o all_cues[i + 4].text \o <<"\n">>

\* C10: N cues numbered 1..N give N div 5 documents, the k-th made of cues
\* 5k-4..5k; the cues after the last multiple of 5 are in no document
\* (12 cues: 2 documents).
C10_FullChunksOnly ==
    (pc = "documents" /\ Contiguous) =>
        /\ Len(documents) = Len(all_cues) \div 5
        /\ \A k \in 1..Len(documents) :
              /\ documents[k].subtitle_index = k
              /\ documents[k].subtitle_start = all_cues[5 * k - 4].start
              /\ documents[k].subtitle_end = all_cues[5 * k].end
              /\ documents[k].subtitle_line = LineOf(5 * k - 4)
        /\ Len(all_cues) = 12 => Len(documents) = 2

\* twelve cues were chunked into two documents
C10_Witness ==
    /\ pc = "documents"
    /\ Contiguous
    /\ Len(all_cues) = 12
    /\ Len(documents) = 2

\* document k is made of the five cues from position i on
MadeOfFive(k, i) ==
    /\ documents[k].subtitle_start = all_cues[i].start
    /\ documents[k].subtitle_end = all_cues[i + 4].end
    /\ documents[k].subtitle_line = LineOf(i)

\* C11: whatever cue list process() made, every document of the chunker is
\* made of exactly 5 consecutive cues.
C11_ExactlyFive ==
    pc = "documents" =>
        \A k \in 1..Len(documents) :
            \E i \in 1..(Len(all_cues) - 4) : MadeOfFive(k, i)

\* C16: the idx of the cues of one track are 1, 2, 3, ... without gap, even
\* when events were dropped.
C16_ContiguousIdx ==
    Processed => \A i \in 1..Len(all_cues) : all_cues[i].idx = i

\* the code point of a character of a timestamp
Ord(c) ==
    CASE c = "." -> 46
      [] c = ":" -> 58
      [] OTHER -> 47 + (CHOOSE d \in 1..10 : Digits[d] = c)

RECURSIVE LexLeq(_, _)
\* s <= t as python compares strings
LexLeq(s, t) ==
    IF s = <<>> THEN TRUE
    ELSE IF t = <<>> THEN FALSE
    ELSE IF Ord(Head(s)) < Ord(Head(t)) THEN TRUE
    ELSE IF Ord(Head(s)) > Ord(Head(t)) THEN FALSE
    ELSE LexLeq(Tail(s), Tail(t))

\* the event a cue was made of
EventOf(cue) == all_events[cue.idx]

LastHasText ==
    /\ source = "auto"
    /\ RawEvents # <<>>
    /\ HasKey(RawEvents[Len(RawEvents)], "segs")
    /\ ~IsBlank(JoinUtf8(RawEvents[Len(RawEvents)].segs))

\* C18: the merge pass loses no event with text: the event is retained as an
\* event of its own or its text is appended to the last retained event,
\* also after a retained event without duration; retained events do not
\* overlap.
C18_NoEventLost ==
    /\ (Processed /\ LastHasText) =>
          LET n    == Len(FlatBefore)
              e    == RawEvents[Len(RawEvents)]
              text == JoinUtf8(e.segs)
          IN  \/ /\ Len(all_events) = n + 1
                 /\ all_events[n + 1].tStartMs = e.tStartMs
                 /\ JoinUtf8(all_events[n + 1].segs) = text
              \/ /\ n >= 1
                 /\ Len(all_events) = n
                 /\ JoinUtf8(all_events[n].segs) =
                        JoinUtf8(FlatBefore[n].segs) \o <<"\n">> \o text
    /\ (Processed /\ source = "auto") =>
          \A i \in 1..(Len(all_events) - 1) :
              HasKey(all_events[i], "dDurationMs") =>
                  all_events[i + 1].tStartMs >=
                      all_events[i].tStartMs + all_events[i].dDurationMs

----------------------------------------------------------------------------
(* Claims about the download loop (checked under SpecDownload)             *)

Happened(p, op, results) ==
    \E i \in 1..Len(history) :
        history[i].pos = p /\ history[i].op = op /\ history[i].result \in results

\* the tracks whose caption file this call wrote
WrittenPositions ==
    {p \in 1..Len(relevant_subtitles) : Happened(p, "write", {"ok"})}

\* the tracks this call skipped: failed download, empty body or no cues
SkippedPositions ==
    {p \in 1..Len(relevant_subtitles) :
        \/ Happened(p, "get", {"not_ok", "ok_empty"})
        \/ \E i \in 1..Len(history) :
              history[i].pos = p /\ history[i].op = "parse" /\ history[i].n = 0}

RECURSIVE PickFrom(_, _, _)
\* the items of s at the positions of P, from position p on, in order
PickFrom(s, P, p) ==
    IF p > Len(s) THEN <<>>
    ELSE (IF p \in P THEN <<s[p]>> ELSE <<>>) \o PickFrom(s, P, p + 1)

\* C1: what download_subtitles returns is the selected tracks whose file it
\* wrote, in selection order; each had an ok response with a body that
\* parsed to at least one cue, its file is there, and no skipped track is in
\* the list.
C1_ReturnsWritten ==
    pc = "returned" =>
        /\ indexed = PickFrom(relevant_subtitles, WrittenPositions, 1)
        /\ \A p \in WrittenPositions :
              /\ Happened(p, "get", {"ok"})
              /\ \E i \in 1..Len(history) :
                    history[i].pos = p /\ history[i].op = "parse" /\ history[i].n >= 1
              /\ \E f \in files : f.path = <<"MEDIA_DIR", relevant_subtitles[p].media_url>>
        /\ \A p \in SkippedPositions : relevant_subtitles[p] \notin Range(indexed)

\* a call returned the second of two tracks after skipping the first
C1_Witness ==
    /\ pc = "returned"
    /\ Len(relevant_subtitles) = 2
    /\ SkippedPositions = {1}
    /\ WrittenPositions = {2}
    /\ indexed = <<relevant_subtitles[2]>>

AllRequested ==
    pc = "returned" => \A p \in 1..Len(relevant_subtitles) : Happened(p, "get", {"not_ok", "ok_empty", "ok"})

\* entry i of history was followed by the delay of a skip, not by an exception
SkippedAt(i) ==
    /\ i < Len(history)
    /\ history[i + 1].op = "sleep"
    /\ history[i + 1].pos = history[i].pos
    /\ relevant_subtitles[history[i].pos] \notin Range(indexed)

\* C2: an ok response with an empty body is a skip wherever the track stands
\* in the batch: nothing is raised, the track is not returned and the later
\* tracks are still requested.
C2_EmptyBodySkipped ==
    /\ \A i \in 1..Len(history) :
          (history[i].op = "get" /\ history[i].result = "ok_empty") =>
              SkippedAt(i)
    /\ AllRequested

\* C3: a response that is not ok, a network error or a timeout is a skip:
\* nothing is raised, the track is not returned, the later tracks are still
\* requested, and no track is requested twice.
C3_FailedDownloadSkipped ==
    /\ \A i \in 1..Len(history) :
          (history[i].op = "get" /\ history[i].result \in {"not_ok", "error"}) =>
              SkippedAt(i)
    /\ \A i, j \in 1..Len(history) :
          (history[i].op = "get" /\ history[j].op = "get"
              /\ history[i].pos = history[j].pos) => i = j
    /\ AllRequested

\* the cue blocks of a caption file: one timing line each
CueBlockCount(content) ==
    Cardinality({i \in 1..Len(content) : content[i] = " --> "})

FileAt(p) ==
    {f \in files : f.path = <<"MEDIA_DIR", relevant_subtitles[p].media_url>>}

BulkEntries(p) ==
    {i \in 1..Len(history) : history[i].op = "bulk" /\ history[i].pos = p}

\* C13: with indexing enabled, a track of k cues, 1 <= k < 5, whose file is
\* written has (until a delete) a file of the WEBVTT header and exactly k cue blocks, exactly
\* one bulk request, of 0 documents, and is in the returned list.
C13_ShortTrack ==
    \A i \in 1..(Len(history) - 1) :
        (/\ config.subtitle_index
         /\ deletes = 0
         /\ history[i].op = "parse"
         /\ history[i].n \in 1..(ChunkSize - 1)
         /\ history[i + 1].op = "write"
         /\ history[i + 1].result = "ok") =>
            LET p == history[i].pos
            IN  /\ \E f \in FileAt(p) :
                      /\ SubSeq(f.content, 1, 6) =
                            <<"WEBVTT", "\n", "Kind: captions", "\n", "Language: ",
                              relevant_subtitles[p].lang>>
                      /\ CueBlockCount(f.content) = history[i].n
                /\ Cardinality(BulkEntries(p)) = 1
                /\ \A b \in BulkEntries(p) : history[b].n = 0
                /\ relevant_subtitles[p] \in Range(indexed)

\* C14: a failed write of a caption file ends the call with the exception:
\* nothing follows it in the call, no bulk request is made for the track and
\* the track is not in the list; and every bulk request comes right after
\* the write of the file of its track, with indexing enabled.
C14_WriteFailurePropagates ==
    /\ \A i \in 1..Len(history) :
          (history[i].op = "write" /\ history[i].result = "error") =>
              /\ i = Len(history)
              /\ raised = "OSError"
              /\ pc # "download"
              /\ pc # "returned"
              /\ BulkEntries(history[i].pos) = {}
              /\ relevant_subtitles[history[i].pos] \notin Range(indexed)
    /\ \A i \in 1..Len(history) :
          history[i].op = "bulk" =>
              /\ config.subtitle_index
              /\ i > 1
              /\ history[i - 1].op = "write"
              /\ history[i - 1].result = "ok"
              /\ history[i - 1].pos = history[i].pos
              /\ Len(bulk) = Cardinality({j \in 1..Len(history) : history[j].op = "bulk"})

\* the write of the second track failed after the first track was written
\* and posted
C14_Witness ==
    /\ raised = "OSError"
    /\ history # <<>>
    /\ history[Len(history)] = [op |-> "write", pos |-> 2, result |-> "error", n |-> 0]
    /\ BulkEntries(1) # {}
    /\ BulkEntries(2) = {}
    /\ indexed = <<relevant_subtitles[1]>>

SleepEntries(p) ==
    {i \in 1..Len(history) : history[i].op = "sleep" /\ history[i].pos = p}

\* C17: every track that was skipped (failed download, empty body, no cues)
\* or written is followed by exactly one delay, and between two requests of
\* a call there is a delay.
C17_DelayAfterEveryTrack ==
    /\ \A p \in SkippedPositions \cup WrittenPositions :
          Cardinality(SleepEntries(p)) = 1
    /\ \A i, j \in 1..Len(history) :
          (i < j /\ history[i].op = "get" /\ history[j].op = "get") =>
              \E k \in (i + 1)..(j - 1) : history[k].op = "sleep"

RecordedSubtitles ==
    IF HasKey(json_data, "subtitles") THEN json_data.subtitles ELSE <<>>

\* C12: when delete has returned, the index holds no document of the video
\* and no recorded caption file is on disk.
C12_DeletePurges ==
    pc = "deleted" =>
        /\ \A d \in index : d._source.youtube_id # YoutubeId
        /\ \A i \in 1..Len(RecordedSubtitles) :
              \A f \in files : f.path # <<"MEDIA_DIR", RecordedSubtitles[i].media_url>>

====
